---------------------------- MODULE Spec2Model ----------------------------
(***************************************************************************)
(* A model of the ssdeep signature comparison of score.go: splitSsdeep,    *)
(* hasCommonSubstring, scoreDistance and Distance.                         *)
(*                                                                         *)
(* A Go string / []byte is a sequence of one-character strings; Go's       *)
(* 0-based indices are kept (ByteAt, Slice), so that every index and slice *)
(* expression of the source can be compared with the model.  A Go runtime  *)
(* panic (index out of range, integer division by zero) is the field       *)
(* "panic" of an operator's result.                                        *)
(*                                                                         *)
(* score.go uses, without defining them, rollingState (rollHash, rollSum), *)
(* distance and the constants rollingWindow, spamSumLength, blockMin and   *)
(* blockSizeSmallLimit.  They are modelled from the specification: the     *)
(* rolling state is a window of the last rollingWindow bytes, rollSum is a *)
(* function of that window (one of the family SumKinds), distance is the   *)
(* Levenshtein distance, and the constants have the values of the ssdeep   *)
(* signature format.                                                       *)
(***************************************************************************)
EXTENDS Integers, Sequences, FiniteSets

VARIABLES
    hash1, hash2,   \* the two arguments of Distance; hash1 is also splitSsdeep's
    h1, h2,         \* the two arguments of hasCommonSubstring
    sumKind,        \* which rolling checksum rollSum computes
    pc,             \* "start" before the call, "done" after it returned
    sig1, sig2,     \* Distance's locals: what splitSsdeep made of hash1 and hash2
    score, err,     \* Distance's results
    panic,          \* the call ended in a runtime panic
    blockSize, part1, part2,   \* splitSsdeep's results (with err)
    common          \* hasCommonSubstring's result

vars == <<hash1, hash2, h1, h2, sumKind, pc, sig1, sig2, score, err, panic,
          blockSize, part1, part2, common>>

---------------------------------------------------------------------------
(* Constants of the signature format (not defined in score.go). *)

rollingWindow == 7
spamSumLength == 64
blockMin == 3
blockSizeSmallLimit == 45

(* The errors of score.go:11-17 and the wrapped Atoi failure of line 81.   *)
ErrNil == "nil"
ErrEmptyHash == "empty string"
ErrInvalidFormat == "invalid ssdeep format"
ErrInvalidFormatAtoi == "invalid ssdeep format: strconv.Atoi"

---------------------------------------------------------------------------
(* Bounds of the model. *)

\* the longest raw input of splitSsdeep drawn from all strings over RawAlphabet
MaxRawLen == 6
\* the longest field of the structured inputs of splitSsdeep
MaxFieldLen == 5
\* the longest part of a signature given to Distance
MaxPartLen == 8
\* how often the largest block size that is capped is doubled in the inputs
\* of Distance
MaxDoublings == 2
\* the longest string given to hasCommonSubstring, and the most bytes "b" in it
MaxStrLen == 8
MaxBs == 2

---------------------------------------------------------------------------
(* Go's bytes, indices and slices. *)

Digits == {"0", "1", "2", "3", "4", "5", "6", "7", "8", "9"}

digitVal(c) ==
    CASE c = "0" -> 0 [] c = "1" -> 1 [] c = "2" -> 2 [] c = "3" -> 3
      [] c = "4" -> 4 [] c = "5" -> 5 [] c = "6" -> 6 [] c = "7" -> 7
      [] c = "8" -> 8 [] c = "9" -> 9

\* the byte value of a character (ASCII); NUL is the zero byte
NUL == "NUL"
byteVal(c) ==
    CASE c = NUL -> 0
      [] c = "+" -> 43 [] c = "-" -> 45 [] c = ":" -> 58
      [] c \in Digits -> 48 + digitVal(c)
      [] c = "a" -> 97 [] c = "b" -> 98 [] c = "c" -> 99 [] c = "x" -> 120

InBounds(s, i) == i >= 0 /\ i < Len(s)
ByteAt(s, i) == s[i + 1]
SliceOK(s, lo, hi) == 0 <= lo /\ lo <= hi /\ hi <= Len(s)
Slice(s, lo, hi) == SubSeq(s, lo + 1, hi)

Min(a, b) == IF a <= b THEN a ELSE b
Max(a, b) == IF a >= b THEN a ELSE b

\* Go's integer conversion and division truncate toward zero
TruncDiv(a, b) == IF a >= 0 THEN a \div b ELSE -((-a) \div b)

---------------------------------------------------------------------------
(* splitSsdeep, score.go:57-133 *)

\* strconv.Atoi on short inputs: an optional sign, then one or more decimal
\* digits.  (Inputs of the model are far too short to leave the int range.)
RECURSIVE digitsVal(_, _)
digitsVal(s, acc) ==
    IF s = <<>> THEN acc ELSE digitsVal(Tail(s), 10 * acc + digitVal(Head(s)))

Atoi(s) ==
    LET signed == s # <<>> /\ Head(s) \in {"+", "-"}
        body == IF signed THEN Tail(s) ELSE s
        ok == body # <<>> /\ \A i \in 1..Len(body) : body[i] \in Digits
    IN  IF ~ok THEN [ok |-> FALSE, val |-> 0]
        ELSE [ok |-> TRUE,
              val |-> IF signed /\ Head(s) = "-" THEN -digitsVal(body, 0)
                      ELSE digitsVal(body, 0)]

\* The first loop (lines 68-74): the index after the first ':' (0 when there
\* is none) and the bytes before it.
RECURSIVE scanBlockSize(_, _)
scanBlockSize(hashBytes, i) ==
    IF i >= Len(hashBytes) THEN [index |-> 0, buffer |-> hashBytes]
    ELSE IF ByteAt(hashBytes, i) = ":"
         THEN [index |-> i + 1, buffer |-> Slice(hashBytes, 0, i)]
         ELSE scanBlockSize(hashBytes, i + 1)

\* The number of repeats of prev after which a byte is no longer copied
\* (the test seq < 3 of lines 96 and 120).
keepRepeat_two(seq) == seq < 2
keepRepeat(seq) == seq < 3

\* The loops of lines 88-104 and 114-128: from byte i on, copy bytes into
\* buffer, dropping a byte that repeats prev for the third time or more, up
\* to the next ':' (colon is the index of that ':', or -1).
RECURSIVE scanField(_, _, _, _, _)
scanField(hashBytes, i, seq, prev, buffer) ==
    IF i >= Len(hashBytes) THEN [colon |-> -1, buffer |-> buffer]
    ELSE LET curr == ByteAt(hashBytes, i)
         IN  IF curr = ":" THEN [colon |-> i, buffer |-> buffer]
             ELSE IF curr = prev
                  THEN scanField(hashBytes, i + 1, seq + 1, prev,
                                 IF keepRepeat(seq + 1) THEN Append(buffer, curr)
                                 ELSE buffer)
                  ELSE scanField(hashBytes, i + 1, 0, curr, Append(buffer, curr))

splitFail(e) == [blockSize |-> 0, part1 |-> <<>>, part2 |-> <<>>, err |-> e]

splitSsdeep(hash) ==
    IF hash = <<>> THEN splitFail(ErrEmptyHash)
    ELSE LET first == scanBlockSize(hash, 0)
             num == Atoi(first.buffer)
             f1 == scanField(hash, first.index, 0, ":", <<>>)
             f2 == scanField(hash, f1.colon + 1, 0, ":", <<>>)
         IN  IF first.index = 0 THEN splitFail(ErrInvalidFormat)
             ELSE IF ~num.ok THEN splitFail(ErrInvalidFormatAtoi)
             ELSE IF f1.colon = -1 THEN splitFail(ErrInvalidFormat)
             ELSE IF f2.colon # -1 THEN splitFail(ErrInvalidFormat)
             ELSE [blockSize |-> num.val, part1 |-> f1.buffer,
                   part2 |-> f2.buffer, err |-> ErrNil]

---------------------------------------------------------------------------
(* The rolling hash (rollingState, rollHash, rollSum): not in score.go.    *)

\* the checksums the model lets rollSum be: each a function of the window
SumKinds == {"poly", "sum", "zero"}

\* rollingState{}: a window of rollingWindow zero bytes
zeroState == [k \in 1..rollingWindow |-> NUL]

\* state.rollHash(c): the oldest byte leaves the window, c enters it
rollHash(state, c) == Append(Tail(state), c)

RECURSIVE polySum(_, _)
polySum(window, acc) ==
    IF window = <<>> THEN acc
    ELSE polySum(Tail(window), (31 * acc + byteVal(Head(window))) % 65536)

RECURSIVE byteSum(_)
byteSum(window) ==
    IF window = <<>> THEN 0 ELSE byteVal(Head(window)) + byteSum(Tail(window))

\* state.rollSum(): a deterministic function of the window
rollSum(state) ==
    CASE sumKind = "poly" -> polySum(state, 0)
      [] sumKind = "sum" -> byteSum(state)
      [] sumKind = "zero" -> 0

---------------------------------------------------------------------------
(* hasCommonSubstring, score.go:135-167 *)

\* lines 144-146 and 153-155: feed h[0], ..., h[rollingWindow-2]
RECURSIVE feedPrefix(_, _, _)
feedPrefix(h, i, state) ==
    IF i >= rollingWindow - 1 THEN [panic |-> FALSE, state |-> state]
    ELSE IF ~InBounds(h, i) THEN [panic |-> TRUE, state |-> state]
    ELSE feedPrefix(h, i + 1, rollHash(state, ByteAt(h, i)))

\* lines 147-150: feed h[i] for i from rollingWindow-1 on, caching each sum
RECURSIVE collectHashes(_, _, _, _)
collectHashes(h, i, state, hashes) ==
    IF i >= Len(h) THEN hashes
    ELSE LET s == rollHash(state, ByteAt(h, i))
         IN  collectHashes(h, i + 1, s, Append(hashes, rollSum(s)))

\* line 160: the test made on the i-th cached checksum
windowsMatch_sumOnly(a, b, i, j, hash, h) == hash = h
windowsMatch(a, b, i, j, hash, h) ==
    hash = h /\ Slice(a, i, i + rollingWindow) = Slice(b, j, j + rollingWindow)

\* lines 159-163: the cached checksums in order, against the window of b at j
RECURSIVE innerLoop(_, _, _, _, _, _)
innerLoop(a, b, hashes, i, j, h) ==
    IF i >= Len(hashes) THEN [panic |-> FALSE, found |-> FALSE]
    ELSE IF ByteAt(hashes, i) = h
            /\ ~(SliceOK(a, i, i + rollingWindow) /\ SliceOK(b, j, j + rollingWindow))
         THEN [panic |-> TRUE, found |-> FALSE]
    ELSE IF windowsMatch(a, b, i, j, ByteAt(hashes, i), h)
         THEN [panic |-> FALSE, found |-> TRUE]
    ELSE innerLoop(a, b, hashes, i + 1, j, h)

\* lines 156-164: the scan of b
RECURSIVE scanSecond(_, _, _, _, _)
scanSecond(a, b, hashes, j, state) ==
    IF j >= Len(b) - rollingWindow + 1 THEN [panic |-> FALSE, ret |-> FALSE]
    ELSE IF ~InBounds(b, j + rollingWindow - 1) THEN [panic |-> TRUE, ret |-> FALSE]
    ELSE LET s == rollHash(state, ByteAt(b, j + rollingWindow - 1))
             in == innerLoop(a, b, hashes, 0, j, rollSum(s))
         IN  IF in.panic THEN [panic |-> TRUE, ret |-> FALSE]
             ELSE IF in.found THEN [panic |-> FALSE, ret |-> TRUE]
             ELSE scanSecond(a, b, hashes, j + 1, s)

\* lines 142-166: what follows the length test
hcsScan(a, b) ==
    LET p1 == feedPrefix(a, 0, zeroState)
        hashes == collectHashes(a, rollingWindow - 1, p1.state, <<>>)
        p2 == feedPrefix(b, 0, zeroState)
    IN  IF p1.panic \/ p2.panic THEN [panic |-> TRUE, ret |-> FALSE]
        ELSE scanSecond(a, b, hashes, 0, p2.state)

hasCommonSubstring_noLengthTest(a, b) == hcsScan(a, b)
hasCommonSubstring(a, b) ==
    IF Len(a) < rollingWindow \/ Len(b) < rollingWindow
    THEN [panic |-> FALSE, ret |-> FALSE]
    ELSE hcsScan(a, b)

---------------------------------------------------------------------------
(* distance: not in score.go; the Levenshtein distance, row by row. *)

RECURSIVE levRow(_, _, _, _)
levRow(prev, a, c, row) ==
    IF Len(row) = Len(a) + 1 THEN row
    ELSE LET y == Len(row)
             cost == IF a[y] = c THEN 0 ELSE 1
         IN  levRow(prev, a, c,
                    Append(row, Min(Min(prev[y + 1] + 1, row[y] + 1), prev[y] + cost)))

RECURSIVE levRows(_, _, _, _)
levRows(a, b, x, prev) ==
    IF x > Len(b) THEN prev[Len(a) + 1]
    ELSE levRows(a, b, x + 1, levRow(prev, a, b[x], <<x>>))

distance(a, b) == levRows(a, b, 1, [y \in 1..(Len(a) + 1) |-> y - 1])

---------------------------------------------------------------------------
(* scoreDistance, score.go:169-188 *)

\* lines 174-187: the score of two strings that share a window.  The float
\* expression of line 183 is exact for a block size that is a multiple of
\* blockMin, as all block sizes of the model are.
scaledScore(a, b, bs) ==
    LET d0 == distance(a, b)
        d1 == (d0 * spamSumLength) \div (Len(a) + Len(b))
        d2 == (100 * d1) \div spamSumLength
        d == 100 - d2
        matchSize == TruncDiv(bs * Min(Len(a), Len(b)), blockMin)
    IN  IF bs >= blockSizeSmallLimit THEN d
        ELSE IF d > matchSize THEN matchSize
        ELSE d

scoreDistance_noFilter(a, b, bs) ==
    IF Len(a) + Len(b) = 0 THEN [panic |-> TRUE, val |-> 0]
    ELSE [panic |-> FALSE, val |-> scaledScore(a, b, bs)]
scoreDistance(a, b, bs) ==
    LET f == hasCommonSubstring(a, b)
    IN  IF f.panic THEN [panic |-> TRUE, val |-> 0]
        ELSE IF ~f.ret THEN [panic |-> FALSE, val |-> 0]
        ELSE IF Len(a) + Len(b) = 0 THEN [panic |-> TRUE, val |-> 0]
        ELSE [panic |-> FALSE, val |-> scaledScore(a, b, bs)]

---------------------------------------------------------------------------
(* Distance, score.go:23-55 *)

\* lines 34-36: the test of the exact-match fast path
exactMatch_never(s1, s2) == FALSE
exactMatch(s1, s2) ==
    /\ s1.blockSize = s2.blockSize
    /\ Len(s1.part1) = Len(s2.part1) /\ Len(s1.part2) = Len(s2.part2)
    /\ s1.part1 = s2.part1 /\ s1.part2 = s2.part2

\* line 41, negated: the block sizes that can be compared
comparable_quadruple(bs1, bs2) ==
    bs1 = bs2 \/ bs1 = bs2 * 2 \/ bs2 = bs1 * 2 \/ bs1 = bs2 * 4 \/ bs2 = bs1 * 4
comparable(bs1, bs2) == bs1 = bs2 \/ bs1 = bs2 * 2 \/ bs2 = bs1 * 2

\* lines 45-53: the parts compared, and the block size they are scored with
dispatch_smallerBlockSize(s1, s2) ==
    IF s1.blockSize = s2.blockSize
    THEN LET d1 == scoreDistance(s1.part1, s2.part1, s1.blockSize)
             d2 == scoreDistance(s1.part2, s2.part2, s1.blockSize * 2)
         IN  [panic |-> d1.panic \/ d2.panic, val |-> Max(d1.val, d2.val)]
    ELSE IF s1.blockSize = s2.blockSize * 2
         THEN scoreDistance(s1.part1, s2.part2, s2.blockSize)
         ELSE scoreDistance(s1.part2, s2.part1, s1.blockSize)
dispatch_firstBlockSize(s1, s2) ==
    IF s1.blockSize = s2.blockSize
    THEN LET d1 == scoreDistance(s1.part1, s2.part1, s1.blockSize)
             d2 == scoreDistance(s1.part2, s2.part2, s1.blockSize * 2)
         IN  [panic |-> d1.panic \/ d2.panic, val |-> Max(d1.val, d2.val)]
    ELSE IF s1.blockSize = s2.blockSize * 2
         THEN scoreDistance(s1.part1, s2.part2, s1.blockSize)
         ELSE scoreDistance(s1.part2, s2.part1, s1.blockSize)
dispatch(s1, s2) ==
    IF s1.blockSize = s2.blockSize
    THEN LET d1 == scoreDistance(s1.part1, s2.part1, s1.blockSize)
             d2 == scoreDistance(s1.part2, s2.part2, s1.blockSize * 2)
         IN  [panic |-> d1.panic \/ d2.panic, val |-> Max(d1.val, d2.val)]
    ELSE IF s1.blockSize = s2.blockSize * 2
         THEN scoreDistance(s1.part1, s2.part2, s1.blockSize)
         ELSE scoreDistance(s1.part2, s2.part1, s2.blockSize)

\* lines 26-54: what Distance does with the two results of splitSsdeep
compare(s1, s2) ==
    LET d == dispatch(s1, s2)
    IN  IF s1.err # ErrNil THEN [score |-> 0, err |-> s1.err, panic |-> FALSE]
        ELSE IF s2.err # ErrNil THEN [score |-> 0, err |-> s2.err, panic |-> FALSE]
        ELSE IF exactMatch(s1, s2) THEN [score |-> 100, err |-> ErrNil, panic |-> FALSE]
        ELSE IF ~comparable(s1.blockSize, s2.blockSize)
             THEN [score |-> 0, err |-> ErrNil, panic |-> FALSE]
        ELSE IF d.panic THEN [score |-> 0, err |-> ErrNil, panic |-> TRUE]
        ELSE [score |-> d.val, err |-> ErrNil, panic |-> FALSE]

Distance(a, b) == compare(splitSsdeep(a), splitSsdeep(b))

---------------------------------------------------------------------------
(* The inputs the calls are made with. *)

digitChar(d) ==
    CASE d = 0 -> "0" [] d = 1 -> "1" [] d = 2 -> "2" [] d = 3 -> "3"
      [] d = 4 -> "4" [] d = 5 -> "5" [] d = 6 -> "6" [] d = 7 -> "7"
      [] d = 8 -> "8" [] d = 9 -> "9"

RECURSIVE natDigits(_)
natDigits(n) ==
    IF n < 10 THEN <<digitChar(n)>>
    ELSE Append(natDigits(n \div 10), digitChar(n % 10))

\* the decimal text of an integer
Itoa(n) == IF n < 0 THEN <<"-">> \o natDigits(-n) ELSE natDigits(n)

RECURSIVE Pow2(_)
Pow2(k) == IF k = 0 THEN 1 ELSE 2 * Pow2(k - 1)

\* all strings over alphabet of length n, and of length at most n
StringsOfLen(alphabet, n) == [1..n -> alphabet]
StringsUpTo(alphabet, n) == UNION {StringsOfLen(alphabet, k) : k \in 0..n}

\* the string of length n that repeats the first r letters of "abc"
Pattern(n, r) == [i \in 1..n |-> <<"a", "b", "c">>[((i - 1) % r) + 1]]

\* Block sizes: zero, two negative ones (Atoi reads a sign), and the sizes
\* 24, 48, ... of the format, of which 24 = 8 * blockMin is the largest
\* below blockSizeSmallLimit.
BlockSizes == {0, -blockMin, -2 * blockMin}
              \cup {8 * blockMin * Pow2(k) : k \in 0..MaxDoublings}

\* Parts: empty, or of at least rollingWindow bytes; with period 1 a run that
\* splitSsdeep shortens, with periods 2 and 3 strings that share no window.
\* The two parts of a signature have the same period.
PartLens == {0} \cup (rollingWindow..MaxPartLen)
PartPairs ==
    {<<Pattern(n1, r), Pattern(n2, r)>> : n1 \in PartLens, n2 \in PartLens, r \in 1..3}

Signature(bs, p1, p2) == Itoa(bs) \o <<":">> \o p1 \o <<":">> \o p2
Signatures == {Signature(bs, pp[1], pp[2]) : bs \in BlockSizes, pp \in PartPairs}
Malformed == {<<>>, <<"3", ":", "a">>}
DistanceInputs == Signatures \cup Malformed

\* splitSsdeep: every string over RawAlphabet up to MaxRawLen, and the texts
\* "3:f1:f2" with f1 over {a, b} and f2 over {b}, up to MaxFieldLen.
RawAlphabet == {"3", "-", "+", ":", "a"}
RawInputs ==
    StringsUpTo(RawAlphabet, MaxRawLen)
    \cup {Signature(3, f1, f2) : f1 \in StringsUpTo({"a", "b"}, MaxFieldLen),
                                 f2 \in StringsUpTo({"b"}, MaxFieldLen)}

\* hasCommonSubstring: the strings over {a, b} of rollingWindow - 1 to
\* MaxStrLen bytes with at most MaxBs bytes "b"
FilterStrings ==
    {s \in UNION {StringsOfLen({"a", "b"}, n) : n \in (rollingWindow - 1)..MaxStrLen} :
        Cardinality({i \in 1..Len(s) : s[i] = "b"}) <= MaxBs}

---------------------------------------------------------------------------
(* Specification Spec: one call of Distance(hash1, hash2). *)

\* a local that Distance has not assigned
Unparsed == splitFail("not parsed")

Idle ==
    /\ pc = "start" /\ sig1 = Unparsed /\ sig2 = Unparsed
    /\ score = 0 /\ err = ErrNil /\ panic = FALSE
    /\ blockSize = 0 /\ part1 = <<>> /\ part2 = <<>> /\ common = FALSE

Init ==
    /\ hash1 \in DistanceInputs /\ hash2 \in DistanceInputs
    /\ sumKind \in SumKinds
    /\ h1 = <<>> /\ h2 = <<>>
    /\ Idle

CallDistance ==
    /\ pc = "start"
    /\ sig1' = splitSsdeep(hash1)
    /\ sig2' = IF sig1'.err = ErrNil THEN splitSsdeep(hash2) ELSE Unparsed
    /\ LET r == compare(sig1', sig2')
       IN  score' = r.score /\ err' = r.err /\ panic' = r.panic
    /\ pc' = "done"
    /\ UNCHANGED <<hash1, hash2, h1, h2, sumKind, blockSize, part1, part2, common>>

Next == CallDistance

Spec == Init /\ [][Next]_vars

(* Specification SpecSplit: one call of splitSsdeep(hash1). *)

InitSplit ==
    /\ hash1 \in RawInputs /\ hash2 = <<>>
    /\ sumKind = "sum"
    /\ h1 = <<>> /\ h2 = <<>>
    /\ Idle

CallSplit ==
    /\ pc = "start"
    /\ LET r == splitSsdeep(hash1)
       IN  blockSize' = r.blockSize /\ part1' = r.part1 /\ part2' = r.part2
           /\ err' = r.err
    /\ pc' = "done"
    /\ UNCHANGED <<hash1, hash2, h1, h2, sumKind, sig1, sig2, score, panic, common>>

NextSplit == CallSplit

SpecSplit == InitSplit /\ [][NextSplit]_vars

(* Specification SpecFilter: one call of hasCommonSubstring(h1, h2). *)

InitFilter ==
    /\ h1 \in FilterStrings /\ h2 \in FilterStrings
    /\ sumKind \in SumKinds
    /\ hash1 = <<>> /\ hash2 = <<>>
    /\ Idle

CallFilter ==
    /\ pc = "start"
    /\ LET r == hasCommonSubstring(h1, h2)
       IN  common' = r.ret /\ panic' = r.panic
    /\ pc' = "done"
    /\ UNCHANGED <<hash1, hash2, h1, h2, sumKind, sig1, sig2, score, err,
                   blockSize, part1, part2>>

NextFilter == CallFilter

SpecFilter == InitFilter /\ [][NextFilter]_vars

---------------------------------------------------------------------------
(* What the properties below speak of. *)

Returned == pc = "done"
\* Distance returned and both signatures had parsed
BothParse == Returned /\ sig1.err = ErrNil /\ sig2.err = ErrNil

\* a and b have a common substring of rollingWindow bytes
SharesWindow(a, b) ==
    \E i \in 0..(Len(a) - rollingWindow), j \in 0..(Len(b) - rollingWindow) :
        Slice(a, i, i + rollingWindow) = Slice(b, j, j + rollingWindow)

\* the text split at every ':'
RECURSIVE Fields(_)
Fields(h) ==
    IF \A i \in 1..Len(h) : h[i] # ":" THEN <<h>>
    ELSE LET i == CHOOSE k \in 1..Len(h) :
                      h[k] = ":" /\ \A m \in 1..(k - 1) : h[m] # ":"
         IN  <<SubSeq(h, 1, i - 1)>> \o Fields(SubSeq(h, i + 1, Len(h)))

\* s without the bytes that follow k or more copies of themselves
RECURSIVE CollapseFrom(_, _, _)
CollapseFrom(s, k, i) ==
    IF i > Len(s) THEN <<>>
    ELSE IF i > k /\ \A d \in 1..k : s[i - d] = s[i]
         THEN CollapseFrom(s, k, i + 1)
         ELSE <<s[i]>> \o CollapseFrom(s, k, i + 1)
CollapseRuns(s, k) == CollapseFrom(s, k, 1)

NoRunLongerThan(s, k) == \A i \in 1..(Len(s) - k) : \E d \in 1..k : s[i + d] # s[i]

\* the text of a non-negative decimal integer (a leading "+" allowed)
NonNegativeDecimal(s) ==
    LET body == IF s # <<>> /\ Head(s) = "+" THEN Tail(s) ELSE s
    IN  body # <<>> /\ \A i \in 1..Len(body) : body[i] \in Digits

---------------------------------------------------------------------------
(* Properties of Distance, under Spec. *)

\* C1: for every signature s that splitSsdeep parses, Distance(s, s) returns
\* (100, nil), whatever the block size and the lengths of the parts.
C1_SelfDistanceIs100 ==
    (Returned /\ hash1 = hash2 /\ sig1.err = ErrNil)
        => (score = 100 /\ err = ErrNil /\ ~panic)

\* C1 witness: a signature with block size 0, an empty part1 and a part2 of
\* a window or more was compared with itself (scoring it would give 0).
C1_Witness ==
    /\ Returned /\ hash1 = hash2 /\ sig1.err = ErrNil
    /\ sig1.part1 = <<>> /\ Len(sig1.part2) >= rollingWindow
    /\ sig1.blockSize = 0
    /\ score = 100

\* C2: for all a and b that parse, Distance(a, b) and Distance(b, a) return
\* the same score and error, in every branch of the orchestrator.
C2_Commutative ==
    BothParse
        => LET r == Distance(hash2, hash1)
           IN  r.score = score /\ r.err = err /\ r.panic = panic

\* C2 witness: the first block size is double the second, and the score is
\* neither 0 nor 100.
C2_Witness ==
    /\ BothParse
    /\ sig1.blockSize = 2 * sig2.blockSize /\ sig2.blockSize > 0
    /\ score > 0 /\ score < 100

\* C3 (as claimed): whenever Distance returns a nil error, the score is in
\* the closed range 0..100.
C3_ScoreInRange ==
    (Returned /\ err = ErrNil /\ ~panic) => score \in 0..100

NoSharedWindow ==
    \A a \in {sig1.part1, sig1.part2}, b \in {sig2.part1, sig2.part2} :
        ~SharesWindow(a, b)

SameParsed ==
    /\ sig1.blockSize = sig2.blockSize
    /\ sig1.part1 = sig2.part1 /\ sig1.part2 = sig2.part2

\* C7 (as claimed): if no part of a shares a substring of rollingWindow bytes
\* with any part of b, Distance(a, b) returns score 0.
C7_NoSharedWindowScoresZero ==
    (BothParse /\ NoSharedWindow) => score = 0

\* C7 (amended): if no part of a shares a substring of rollingWindow bytes
\* with any part of b, and a and b do not parse to the same block size and
\* the same two parts, Distance(a, b) returns score 0; if they do parse to
\* the same, it returns 100.
C7_NoSharedWindowScoresZeroUnlessSame ==
    (BothParse /\ NoSharedWindow)
        => (score = IF SameParsed THEN 100 ELSE 0)

\* C7 witness: equal block sizes, four parts of a window or more, no window
\* in common, score 0.
C7_Witness ==
    /\ BothParse /\ NoSharedWindow /\ ~SameParsed
    /\ sig1.blockSize = sig2.blockSize
    /\ \A q \in {sig1.part1, sig1.part2, sig2.part1, sig2.part2} :
           Len(q) >= rollingWindow
    /\ score = 0

\* C8: for every pair of signatures that parse, Distance completes without a
\* runtime failure: no index or slice of hasCommonSubstring is out of range,
\* and scoreDistance goes on to its division only with two strings of at
\* least rollingWindow bytes, so it never divides by zero.
C8_NoRuntimeFailure ==
    BothParse
        => /\ ~panic
           /\ \A a \in {sig1.part1, sig1.part2}, b \in {sig2.part1, sig2.part2} :
                  LET f == hasCommonSubstring(a, b)
                  IN  /\ ~f.panic
                      /\ f.ret => (Len(a) >= rollingWindow /\ Len(b) >= rollingWindow)

\* C8 witness: with equal block sizes, an empty part1 was scored against one
\* of a window or more, and the two part2 went through the division.
C8_Witness ==
    /\ BothParse /\ ~panic
    /\ sig1.blockSize = sig2.blockSize
    /\ sig1.part1 = <<>> /\ Len(sig2.part1) >= rollingWindow
    /\ sig1.part2 # sig2.part2
    /\ score > 0

\* C9 (as claimed): when one block size is double the other, the cross pair
\* of parts is scored with the smaller block size.  (Stated for positive
\* block sizes, where "smaller" and "double" have their plain meaning.)
C9_CrossPairUsesSmallerBlockSize ==
    (BothParse /\ ~panic /\ sig1.blockSize > 0 /\ sig2.blockSize > 0)
        => /\ sig1.blockSize = 2 * sig2.blockSize
                => score = scoreDistance(sig1.part1, sig2.part2,
                                         sig2.blockSize).val
           /\ sig2.blockSize = 2 * sig1.blockSize
                => score = scoreDistance(sig1.part2, sig2.part1,
                                         sig1.blockSize).val

\* C9 (amended): when one block size is double the other, the cross pair of
\* parts is scored with the larger block size: part1 of the signature with
\* the larger block size against part2 of the other, with the larger block
\* size deciding the cap.
C9_CrossPairUsesLargerBlockSize ==
    (BothParse /\ ~panic /\ sig1.blockSize # sig2.blockSize)
        => /\ sig1.blockSize = 2 * sig2.blockSize
                => score = scoreDistance(sig1.part1, sig2.part2,
                                         sig1.blockSize).val
           /\ sig2.blockSize = 2 * sig1.blockSize
                => score = scoreDistance(sig1.part2, sig2.part1,
                                         sig2.blockSize).val

\* C9 witness: block sizes 24 and 48, the cross pair shares a window, and the
\* cap of block size 24 would have given another score.
C9_Witness ==
    /\ BothParse /\ ~panic
    /\ sig1.blockSize = 24 /\ sig2.blockSize = 48
    /\ score > 0
    /\ score # scoreDistance(sig1.part2, sig2.part1, sig1.blockSize).val

---------------------------------------------------------------------------
(* Properties of splitSsdeep, under SpecSplit. *)

\* what C4 calls malformed, for a non-empty input
MalformedText(h) ==
    \/ Len(Fields(h)) = 1
    \/ ~NonNegativeDecimal(Fields(h)[1])
    \/ Len(Fields(h)) = 2
    \/ Len(Fields(h)) > 3

\* C4 (as claimed): splitSsdeep returns ErrEmptyHash exactly for the empty
\* input, and for a non-empty input ErrInvalidFormat exactly when there is
\* no ':', the text before the first ':' is not a non-negative decimal
\* integer, there is one ':' only, or there are more than two.
C4_AcceptsExactlyTheFormat ==
    Returned
        => /\ (err = ErrEmptyHash) <=> (hash1 = <<>>)
           /\ hash1 # <<>>
                => ((err \in {ErrInvalidFormat, ErrInvalidFormatAtoi})
                       <=> MalformedText(hash1))

---------------------------------------------------------------------------
(* Properties of hasCommonSubstring, under SpecFilter. *)

\* C10: hasCommonSubstring(a, b) returns true exactly when a and b have a
\* common substring of rollingWindow bytes, whichever checksum rollSum is:
\* false for a string shorter than the window, and never true on a checksum
\* collision alone.
C10_FilterIffSharedWindow ==
    Returned => (~panic /\ (common <=> SharesWindow(h1, h2)))

\* C10 witness: with the checksum that is 0 for every window, two strings of
\* more than a window each, with no common window, gave false.
C10_Witness ==
    /\ Returned /\ sumKind = "zero"
    /\ Len(h1) > rollingWindow /\ Len(h2) > rollingWindow
    /\ ~SharesWindow(h1, h2) /\ ~common

=============================================================================
